---- MODULE Spec2Model ----
(***************************************************************************)
(* Model of src/main.py: the PDF -> text -> LLM -> JSON -> filter -> file   *)
(* pipeline (extraer_texto_pdf, analizar_estructura_documento,              *)
(* filtrar_rectangulos_validos, extraer_datos_documento_pdf,                *)
(* mostrar_resultados, guardar_datos_extraidos and the __main__ block).     *)
(*                                                                         *)
(* Python values are tagged records [t |-> <type>, v |-> <payload>]; a      *)
(* Python str is a sequence of one-character strings; a dict is a record    *)
(* over the keys the program reads, an absent key holding Missing.          *)
(***************************************************************************)
EXTENDS Integers, Sequences, FiniteSets, TLC

\* ------------------------------------------------------------------ bounds
MaxPages == 2   \* pages of the input PDF
MaxRects == 2   \* entries of "rectangulos_con_informacion" in a model response
MaxCore  == 6   \* non-blank characters of a category / information string
MaxPad   == 1   \* blanks on either side of such a string

\* ------------------------------------------------------- program constants
CatMin  == 2    \* len(categoria) > 2
InfoMin == 5    \* len(informacion) > 5

\* ------------------------------------------------------------ Python values
None    == [t |-> "none"]
Missing == [t |-> "missing"]          \* key absent from a dict (not a value)
NaN     == [t |-> "nan"]              \* float('nan')
Num(n)  == [t |-> "num", v |-> n]
Str(s)  == [t |-> "str", v |-> s]
List(l) == [t |-> "list", v |-> l]
Dict(d) == [t |-> "dict", v |-> d]

DictVacio(d) == \A k \in DOMAIN d.v : d.v[k] = Missing

\* bool(x): None, 0, "", [] and {} are falsy, everything else (nan too) truthy
Truthy(x) ==
    CASE x.t = "none" -> FALSE
      [] x.t = "num"  -> x.v # 0
      [] x.t = "nan"  -> TRUE
      [] x.t = "str"  -> Len(x.v) > 0
      [] x.t = "list" -> Len(x.v) > 0
      [] x.t = "dict" -> ~DictVacio(x)

\* d.get(k, default) on a dict
Get(d, k, default) ==
    IF k \in DOMAIN d.v /\ d.v[k] # Missing THEN d.v[k] ELSE default

\* variant: a new dict holding the one key replaces the dict
SetItemSolo(d, k, x) == Dict([j \in {k} |-> x])

\* d[k] = x on a dict
SetItem(d, k, x) ==
    Dict([j \in DOMAIN d.v \cup {k} |-> IF j = k THEN x ELSE d.v[j]])

\* ------------------------------------------------------------------ strings
Blanco == " "

RECURSIVE lstrip(_)
lstrip(s) == IF s # <<>> /\ Head(s) = Blanco THEN lstrip(Tail(s)) ELSE s

RECURSIVE rstrip(_)
rstrip(s) ==
    IF s # <<>> /\ s[Len(s)] = Blanco THEN rstrip(SubSeq(s, 1, Len(s) - 1)) ELSE s

\* str.strip()
strip(s) == rstrip(lstrip(s))

lowerChar(c) == IF c = "A" THEN "a" ELSE c

\* str.lower()
lower(s) == [i \in 1..Len(s) |-> lowerChar(s[i])]

\* ------------------------------------------- filtrar_rectangulos_validos
EmptyStr == Str(<<>>)

Rect(c, i) == Dict([categoria |-> c, informacion |-> i])

\* "for rectangulo in X" raises TypeError unless X is a list, a str or a dict
Iterable(x) == x.t \in {"list", "str", "dict"}

\* the values the loop variable takes: a list's elements, a str's characters,
\* a dict's keys
Elementos(x) ==
    CASE x.t = "list" -> x.v
      [] x.t = "str"  -> [i \in 1..Len(x.v) |-> Str(<<x.v[i]>>)]
      [] x.t = "dict" -> IF DictVacio(x) THEN <<>> ELSE <<Str(<<"k">>)>>

\* rectangulo.get(...).strip() raises AttributeError unless rectangulo is a
\* dict and the value found (or the "" default) is a str
EntradaLanza(r) ==
    \/ r.t # "dict"
    \/ Get(r, "categoria", EmptyStr).t # "str"
    \/ Get(r, "informacion", EmptyStr).t # "str"

\* variant: the conditions are tested on the values as found, not stripped
PasaFiltroCrudo(r) ==
    LET categoria   == Get(r, "categoria", EmptyStr).v
        informacion == Get(r, "informacion", EmptyStr).v
    IN  /\ Len(categoria) > CatMin
        /\ Len(informacion) > InfoMin
        /\ lower(categoria) # lower(informacion)

\* variant: >= in place of > for the category length
PasaFiltroGE(r) ==
    LET categoria   == strip(Get(r, "categoria", EmptyStr).v)
        informacion == strip(Get(r, "informacion", EmptyStr).v)
    IN  /\ Len(categoria) >= CatMin
        /\ Len(informacion) > InfoMin
        /\ lower(categoria) # lower(informacion)

\* the quality condition of lines 246-247, on the stripped values
PasaFiltro(r) ==
    LET categoria   == strip(Get(r, "categoria", EmptyStr).v)
        informacion == strip(Get(r, "informacion", EmptyStr).v)
    IN  /\ Len(categoria) > CatMin
        /\ Len(informacion) > InfoMin
        /\ lower(categoria) # lower(informacion)

Ok(x)  == [raised |-> FALSE, value |-> x]
Raised == [raised |-> TRUE, value |-> None]

\* variant: rejected entries are removed from the list while it is iterated
RemoveAt(l, i) == SubSeq(l, 1, i - 1) \o SubSeq(l, i + 1, Len(l))

RECURSIVE QuitarAlIterar(_, _)
QuitarAlIterar(l, i) ==
    IF i > Len(l) THEN l
    ELSE IF PasaFiltro(l[i]) THEN QuitarAlIterar(l, i + 1)
    ELSE QuitarAlIterar(RemoveAt(l, i), i + 1)

filtrarQuitandoAlIterar(datos_extraidos) ==
    IF ~Truthy(datos_extraidos) THEN Ok(None)
    ELSE IF datos_extraidos.t # "dict" THEN Raised
    ELSE LET x == Get(datos_extraidos, "rectangulos_con_informacion", List(<<>>))
         IN  IF ~Iterable(x) THEN Raised
             ELSE IF \E i \in 1..Len(Elementos(x)) : EntradaLanza(Elementos(x)[i])
                  THEN Raised
             ELSE Ok(SetItem(datos_extraidos, "rectangulos_con_informacion",
                             List(QuitarAlIterar(Elementos(x), 1))))

filtrar_rectangulos_validos(datos_extraidos) ==
    IF ~Truthy(datos_extraidos) THEN Ok(None)
    ELSE IF datos_extraidos.t # "dict" THEN Raised          \* no .get
    ELSE LET x == Get(datos_extraidos, "rectangulos_con_informacion", List(<<>>))
         IN  IF ~Iterable(x) THEN Raised
             ELSE IF \E i \in 1..Len(Elementos(x)) : EntradaLanza(Elementos(x)[i])
                  THEN Raised
             ELSE Ok(SetItem(datos_extraidos, "rectangulos_con_informacion",
                             List(SelectSeq(Elementos(x), PasaFiltro))))

\* ------------------------------------------------------------ input domains
Rep(c, n) == [i \in 1..n |-> c]

Letras == {"a", "A", "b"}

Cadenas ==
    { Rep(Blanco, l) \o Rep(c, n) \o Rep(Blanco, r) :
        l \in 0..MaxPad, r \in 0..MaxPad, c \in Letras, n \in 0..MaxCore }

\* ------------------------------------------------------- extraer_texto_pdf
\* texto_completo is a sequence of tokens: the page separator written by
\* line 72 for page n (one token) and the characters of the page texts
Marca(n) == [k |-> "marca", n |-> n]
Car(c)   == [k |-> "car", c |-> c]

Chars(s) == [i \in 1..Len(s) |-> Car(s[i])]

\* a page: extract_text() returns `texto`, or raises when not legible
Pagina(s)      == [legible |-> TRUE, texto |-> s]
PaginaIlegible == [legible |-> FALSE, texto |-> <<>>]

\* variant: a page that cannot be read ends the loop with the text so far
RECURSIVE LeerPaginasParcial(_, _, _)
LeerPaginasParcial(paginas, i, texto_completo) ==
    IF i >= Len(paginas) THEN Ok(Str(texto_completo))
    ELSE IF ~paginas[i + 1].legible THEN Ok(Str(texto_completo))
    ELSE LeerPaginasParcial(paginas, i + 1,
             (texto_completo \o <<Marca(i + 1)>>) \o Chars(paginas[i + 1].texto))

\* the for loop of lines 62-75, from page index i (0-based) on
RECURSIVE LeerPaginas(_, _, _)
LeerPaginas(paginas, i, texto_completo) ==
    IF i >= Len(paginas) THEN Ok(Str(texto_completo))
    ELSE IF ~paginas[i + 1].legible THEN Raised
    ELSE LeerPaginas(paginas, i + 1,
             (texto_completo \o <<Marca(i + 1)>>) \o Chars(paginas[i + 1].texto))

extraer_texto_pdf(archivo) ==
    IF ~archivo.abre THEN None                       \* open / PdfReader raised
    ELSE LET r == LeerPaginas(archivo.paginas, 0, <<>>)
         IN  IF r.raised THEN None ELSE r.value      \* except Exception: None

\* ----------------------------------------------------------- response text
\* A response text is described by its form: "json" is the serialisation of
\* `doc`; "nan" the bare literal NaN; "error_json" the escape token; "prosa"
\* JSON wrapped in commentary; "truncado" JSON cut short; "vacio" the empty
\* string.  `pad` tells whether whitespace surrounds it.
Texto(f, d, p) == [forma |-> f, doc |-> d, pad |-> p]

\* str.strip() on a response text
stripTexto(x) == [x EXCEPT !.pad = FALSE]

\* json.loads: decodes JSON documents and, beyond the JSON grammar, the
\* literals NaN / Infinity / -Infinity; raises JSONDecodeError otherwise
json_loads(x) ==
    CASE x.forma = "json" -> Ok(x.doc)
      [] x.forma = "nan"  -> Ok(NaN)
      [] OTHER            -> Raised

\* json.dump(datos, archivo, indent=4, ensure_ascii=False)
json_dump(datos) == Texto("json", datos, FALSE)

\* ------------------------------------------------------------------- files
Ausente    == [estado |-> "ausente", contenido |-> Texto("vacio", None, FALSE)]
Archivo(c) == [estado |-> "escrito", contenido |-> c]
Previo     == [estado |-> "previo", contenido |-> Texto("vacio", None, FALSE)]
Parcial    == [estado |-> "parcial", contenido |-> Texto("vacio", None, FALSE)]

\* open(nombre, "w") followed by a write: both succeed, open raises (file
\* untouched), or the write raises after open truncated the file
Escribir(previo, contenido, resultado) ==
    CASE resultado = "ok"             -> Archivo(contenido)
      [] resultado = "fallo_abrir"    -> previo
      [] resultado = "fallo_escribir" -> Parcial

ResultadosEscritura == {"ok", "fallo_abrir", "fallo_escribir"}

\* ------------------------------------------------------ mostrar_resultados
Sized(x) == x.t \in {"str", "list", "dict"}           \* len(x) is defined

\* len(datos_finales.get("informacion_externa", [])) of line 318
ResumirLanza(datos) ==
    ~Sized(Get(datos, "informacion_externa", List(<<>>)))

MostrarLanza(datos) ==
    LET info_externa      == Get(datos, "informacion_externa", List(<<>>))
        datos_adicionales == Get(datos, "datos_adicionales", Dict(<<>>))
    IN  /\ Truthy(datos)
        /\ \/ Truthy(info_externa) /\ ~Sized(info_externa)
           \/ /\ Truthy(datos_adicionales)
              /\ \/ datos_adicionales.t # "dict"         \* no .items()
                 \/ \E k \in DOMAIN datos_adicionales.v :
                       LET items == datos_adicionales.v[k]
                       IN  items # Missing /\ Truthy(items) /\ ~Sized(items)

\* ------------------------------------------------------ environment inputs
PageTexts == {<<>>, <<"x", "y">>}

Paginas == {Pagina(s) : s \in PageTexts} \cup {PaginaIlegible}

RECURSIVE SeqsUpTo(_, _)
SeqsUpTo(S, n) ==
    IF n = 0 THEN {<<>>}
    ELSE LET shorter == SeqsUpTo(S, n - 1)
         IN  shorter \cup {Append(q, x) : q \in {r \in shorter : Len(r) = n - 1}, x \in S}

\* the file at ruta_pdf: it cannot be opened as a PDF, or it has pages
PDFs ==
    {[abre |-> FALSE, paginas |-> <<>>]}
        \cup {[abre |-> TRUE, paginas |-> ps] : ps \in SeqsUpTo(Paginas, MaxPages)}

\* entries a model response may hold
EntradasMuestra ==
    { Rect(Str(Rep("a", CatMin + 1)), Str(Rep("b", InfoMin + 1))),     \* kept
      Rect(Str(<<Blanco>> \o Rep("A", CatMin + 1)),
           Str(Rep("a", InfoMin + 1) \o <<Blanco>>)),                  \* kept, padded
      Rect(Str(Rep("a", CatMin)), Str(Rep("b", InfoMin))),             \* too short
      Rect(Str(Rep("a", InfoMin + 1)),
           Str(<<Blanco>> \o Rep("A", InfoMin + 1))),                  \* equal
      Rect(None, Str(Rep("b", InfoMin + 1))) }                         \* null field

ValoresRectangulos ==
    {Missing, None} \cup {List(l) : l \in SeqsUpTo(EntradasMuestra, MaxRects)}

ValoresExterna == {Missing, None, List(<<Str(<<"x">>)>>)}

ValoresAdicionales ==
    { Dict([nombres_mencionados |-> List(<<Str(<<"x">>)>>)]),
      Dict([nombres_mencionados |-> Num(1)]) }

Objetos ==
    { Dict([rectangulos_con_informacion |-> r, informacion_externa |-> e,
            datos_adicionales |-> a]) :
        r \in ValoresRectangulos, e \in ValoresExterna, a \in ValoresAdicionales }

ObjetoVacio ==
    Dict([rectangulos_con_informacion |-> Missing, informacion_externa |-> Missing,
          datos_adicionales |-> Missing])

\* JSON documents of other shapes: {}, [], a list, 0, a number, null
OtrosDocumentos ==
    {ObjetoVacio, List(<<>>), List(<<Num(1)>>), Num(0), Num(1), None}

\* message.content of the first choice
Respuestas ==
    {Texto("json", d, p) : d \in Objetos \cup OtrosDocumentos, p \in BOOLEAN}
        \cup {Texto(f, None, p) :
                f \in {"nan", "error_json", "prosa", "truncado", "vacio"}, p \in BOOLEAN}

\* what client.chat.completions.create(...) and the reading of
\* choices[0].message.content do: raise, give no content, or give a text
ResultadosLlamada ==
    {[tipo |-> "excepcion", texto |-> Texto("vacio", None, FALSE)],
     [tipo |-> "sin_contenido", texto |-> Texto("vacio", None, FALSE)]}
        \cup {[tipo |-> "texto", texto |-> x] : x \in Respuestas}

\* inputs of the filter taken on its own
Rectangulos ==
    {Rect(c, i) : c \in {Str(s) : s \in Cadenas} \cup {Missing},
                  i \in {Str(s) : s \in Cadenas} \cup {Missing}}

EntradasFiltro ==
    {None, ObjetoVacio}
        \cup Objetos
        \cup { Dict([rectangulos_con_informacion |-> List(<<r>>),
                     informacion_externa |-> List(<<>>),
                     datos_adicionales |-> Missing]) : r \in Rectangulos }

\* -------------------------------------------------------------------- state
VARIABLES
    pc,                 \* position of the run in __main__ and its callees
    existe,             \* os.path.exists(ruta_archivo_pdf)
    pdf,                \* the file at ruta_archivo_pdf
    texto_documento,    \* result of extraer_texto_pdf
    llamadas,           \* remote chat-completion calls issued
    contenido_respuesta,\* the stripped response text
    raw_file,           \* respuesta_ia_raw.txt
    datos_extraidos,    \* the parsed object, mutated in place by the filter
    resultados,         \* what extraer_datos_documento_pdf returned to __main__
    out_file,           \* datos_extraidos.json
    escrituras,         \* times datos_extraidos.json was opened for writing
    traza,              \* stages entered, in order
    escape,             \* function out of which an exception propagated
    fpc,                \* position of the stand-alone filter run
    entrada,            \* its input
    una_vez,            \* result of filtering the input
    dos_veces           \* result of filtering that result

vars == <<pc, existe, pdf, texto_documento, llamadas, contenido_respuesta, raw_file,
          datos_extraidos, resultados, out_file, escrituras, traza, escape,
          fpc, entrada, una_vez, dos_veces>>

filtro_vars   == <<fpc, entrada, una_vez, dos_veces>>
pipeline_vars == <<pc, existe, pdf, texto_documento, llamadas, contenido_respuesta,
                   raw_file, datos_extraidos, resultados, out_file, escrituras,
                   traza, escape>>

SinTexto == Texto("vacio", None, FALSE)

PipelineInit(p) ==
    /\ pc = p
    /\ texto_documento = None
    /\ llamadas = 0
    /\ contenido_respuesta = SinTexto
    /\ raw_file = Ausente
    /\ datos_extraidos = None
    /\ resultados = None
    /\ escrituras = 0
    /\ traza = <<>>
    /\ escape = "ninguna"

FiltroInit(p) ==
    /\ fpc = p
    /\ una_vez = Ok(None)
    /\ dos_veces = Ok(None)

\* the process starts: python main.py
Init ==
    /\ PipelineInit("main")
    /\ existe \in BOOLEAN
    /\ pdf \in IF existe THEN PDFs ELSE {[abre |-> FALSE, paginas |-> <<>>]}
    /\ out_file \in {Ausente, Previo}
    /\ FiltroInit("off")
    /\ entrada = None

\* ----------------------------------------------------------------- __main__
\* variant: the existence check is skipped
VerificarArchivoSinCheck ==
    /\ pc = "main"
    /\ traza' = Append(traza, "encontrado")
    /\ pc' = "extraer"
    /\ UNCHANGED <<existe, pdf, texto_documento, llamadas, contenido_respuesta,
                   raw_file, datos_extraidos, resultados, out_file, escrituras, escape>>
    /\ UNCHANGED filtro_vars

\* lines 448-462: the existence check
VerificarArchivo ==
    /\ pc = "main"
    /\ IF ~existe
         THEN /\ traza' = Append(traza, "no_encontrado")
              /\ pc' = "fin"
         ELSE /\ traza' = Append(traza, "encontrado")
              /\ pc' = "extraer"
    /\ UNCHANGED <<existe, pdf, texto_documento, llamadas, contenido_respuesta,
                   raw_file, datos_extraidos, resultados, out_file, escrituras, escape>>
    /\ UNCHANGED filtro_vars

\* variant: only None is taken as "no text"
TextoAusenteSoloNone(texto) == texto = None

\* "if not texto_documento" of line 290
TextoAusente(texto) == ~Truthy(texto)

\* lines 287-295: extraer_texto_pdf and the check of its result
ExtraerTexto ==
    /\ pc = "extraer"
    /\ texto_documento' = extraer_texto_pdf(pdf)
    /\ traza' = Append(traza, "extraer")
    /\ pc' = IF TextoAusente(texto_documento') THEN "sin_datos" ELSE "llamar"
    /\ UNCHANGED <<existe, pdf, llamadas, contenido_respuesta, raw_file,
                   datos_extraidos, resultados, out_file, escrituras, escape>>
    /\ UNCHANGED filtro_vars

\* lines 162-178 (and 195-197, 303-305 when the call fails): the remote call
\* and the reading of the first choice's content
LlamadaRemota ==
    /\ pc = "llamar"
    /\ llamadas' = llamadas + 1
    /\ traza' = Append(traza, "llamar")
    /\ \E r \in ResultadosLlamada :
         IF r.tipo = "texto"
           THEN /\ contenido_respuesta' = stripTexto(r.texto)
                /\ pc' = "guardar_raw"
           ELSE /\ contenido_respuesta' = contenido_respuesta
                /\ pc' = "sin_datos"       \* except Exception: return None
    /\ UNCHANGED <<existe, pdf, texto_documento, raw_file, datos_extraidos,
                   resultados, out_file, escrituras, escape>>
    /\ UNCHANGED filtro_vars

\* variant: the side file is reported as saved without being written
GuardarRawSinEscribir ==
    /\ pc = "guardar_raw"
    /\ traza' = Append(traza, "raw")
    /\ pc' = "parsear"
    /\ UNCHANGED <<existe, pdf, texto_documento, llamadas, contenido_respuesta, raw_file,
                   datos_extraidos, resultados, out_file, escrituras, escape>>
    /\ UNCHANGED filtro_vars

\* lines 181-186: the raw response goes to respuesta_ia_raw.txt; a failure
\* is caught and reported
GuardarRaw ==
    /\ pc = "guardar_raw"
    /\ \E w \in ResultadosEscritura :
         /\ raw_file' = Escribir(raw_file, contenido_respuesta, w)
         /\ traza' = Append(traza, IF w = "ok" THEN "raw" ELSE "error_raw")
    /\ pc' = "parsear"
    /\ UNCHANGED <<existe, pdf, texto_documento, llamadas, contenido_respuesta,
                   datos_extraidos, resultados, out_file, escrituras, escape>>
    /\ UNCHANGED filtro_vars

\* what analizar_estructura_documento returns for a response text, lines 188-194
Parsear(contenido) ==
    LET r == json_loads(contenido) IN IF r.raised THEN None ELSE r.value

\* lines 188-194 and 303-305: json.loads and the check of the result
ParsearRespuesta ==
    /\ pc = "parsear"
    /\ datos_extraidos' = Parsear(contenido_respuesta)
    /\ traza' = Append(traza, "parsear")
    /\ pc' = IF ~Truthy(datos_extraidos') THEN "sin_datos" ELSE "filtrar"
    /\ UNCHANGED <<existe, pdf, texto_documento, llamadas, contenido_respuesta,
                   raw_file, resultados, out_file, escrituras, escape>>
    /\ UNCHANGED filtro_vars

\* line 310: filtrar_rectangulos_validos(datos_extraidos); the dict is
\* mutated in place, an exception propagates to the top level
Filtrar ==
    /\ pc = "filtrar"
    /\ traza' = Append(traza, "filtrar")
    /\ LET r == filtrar_rectangulos_validos(datos_extraidos)
       IN  IF r.raised
             THEN /\ escape' = "filtrar_rectangulos_validos"
                  /\ pc' = "crash"
                  /\ UNCHANGED datos_extraidos
             ELSE /\ datos_extraidos' = r.value
                  /\ pc' = "resumir"
                  /\ UNCHANGED escape
    /\ UNCHANGED <<existe, pdf, texto_documento, llamadas, contenido_respuesta,
                   raw_file, resultados, out_file, escrituras>>
    /\ UNCHANGED filtro_vars

\* lines 314-325 and 465-468: the counts, the return and the check in __main__
Resumir ==
    /\ pc = "resumir"
    /\ traza' = Append(traza, "resumir")
    /\ IF Truthy(datos_extraidos) /\ ResumirLanza(datos_extraidos)
         THEN /\ escape' = "extraer_datos_documento_pdf"
              /\ pc' = "crash"
              /\ UNCHANGED resultados
         ELSE /\ resultados' = datos_extraidos
              /\ pc' = IF Truthy(datos_extraidos) THEN "mostrar" ELSE "sin_datos"
              /\ UNCHANGED escape
    /\ UNCHANGED <<existe, pdf, texto_documento, llamadas, contenido_respuesta,
                   raw_file, datos_extraidos, out_file, escrituras>>
    /\ UNCHANGED filtro_vars

\* variant: the result is saved before it is shown
MostrarDespues ==
    /\ pc = "mostrar"
    /\ pc' = "guardar"
    /\ UNCHANGED <<existe, pdf, texto_documento, llamadas, contenido_respuesta, raw_file,
                   datos_extraidos, resultados, out_file, escrituras, traza, escape>>
    /\ UNCHANGED filtro_vars

\* line 472: mostrar_resultados(resultados)
Mostrar ==
    /\ pc = "mostrar"
    /\ traza' = Append(traza, "mostrar")
    /\ IF MostrarLanza(resultados)
         THEN /\ escape' = "mostrar_resultados"
              /\ pc' = "crash"
         ELSE /\ pc' = "guardar"
              /\ UNCHANGED escape
    /\ UNCHANGED <<existe, pdf, texto_documento, llamadas, contenido_respuesta,
                   raw_file, datos_extraidos, resultados, out_file, escrituras>>
    /\ UNCHANGED filtro_vars

\* lines 349-361 and 475-477: guardar_datos_extraidos(resultados)
Guardar ==
    /\ pc = "guardar"
    /\ \E w \in ResultadosEscritura :
         /\ out_file' = Escribir(out_file, json_dump(resultados), w)
         /\ escrituras' = IF w = "fallo_abrir" THEN escrituras ELSE escrituras + 1
         /\ traza' = Append(traza, IF w = "ok" THEN "guardar" ELSE "error_guardar")
    /\ pc' = "fin"
    /\ UNCHANGED <<existe, pdf, texto_documento, llamadas, contenido_respuesta,
                   raw_file, datos_extraidos, resultados, escape>>
    /\ UNCHANGED filtro_vars

\* lines 479-486: no results, the list of likely causes
ReportarFallo ==
    /\ pc = "sin_datos"
    /\ traza' = Append(traza, "sin_datos")
    /\ pc' = "fin"
    /\ UNCHANGED <<existe, pdf, texto_documento, llamadas, contenido_respuesta,
                   raw_file, datos_extraidos, resultados, out_file, escrituras, escape>>
    /\ UNCHANGED filtro_vars

Next ==
    \/ VerificarArchivo
    \/ ExtraerTexto
    \/ LlamadaRemota
    \/ GuardarRaw
    \/ ParsearRespuesta
    \/ Filtrar
    \/ Resumir
    \/ Mostrar
    \/ Guardar
    \/ ReportarFallo

Spec == Init /\ [][Next]_vars

\* ------------------------------------------- the filter taken on its own
FilterInit ==
    /\ PipelineInit("off")
    /\ existe = FALSE
    /\ pdf = [abre |-> FALSE, paginas |-> <<>>]
    /\ out_file = Ausente
    /\ FiltroInit("inicio")
    /\ entrada \in EntradasFiltro

\* filtrar_rectangulos_validos(entrada)
FiltrarUnaVez ==
    /\ fpc = "inicio"
    /\ una_vez' = filtrar_rectangulos_validos(entrada)
    /\ fpc' = IF una_vez'.raised THEN "lanzo" ELSE "una"
    /\ UNCHANGED <<entrada, dos_veces>>
    /\ UNCHANGED pipeline_vars

\* filtrar_rectangulos_validos applied to its own result
FiltrarOtraVez ==
    /\ fpc = "una"
    /\ dos_veces' = filtrar_rectangulos_validos(una_vez.value)
    /\ fpc' = IF dos_veces'.raised THEN "lanzo" ELSE "dos"
    /\ UNCHANGED <<entrada, una_vez>>
    /\ UNCHANGED pipeline_vars

FilterNext == FiltrarUnaVez \/ FiltrarOtraVez

FilterSpec == FilterInit /\ [][FilterNext]_vars

\* ------------------------------------------------------------------ claims
Range(q) == {q[i] : i \in 1..Len(q)}

\* C1: the remote call is issued at most once, never when extraer_texto_pdf
\* returned None or an empty text; in that case the orchestrator returns None
\* and analizar_estructura_documento is not entered.
C1_LlamadaUnaVezYSoloConTexto ==
    /\ llamadas <= 1
    /\ llamadas > 0 => Truthy(texto_documento)
    /\ ("extraer" \in Range(traza) /\ ~Truthy(texto_documento)) =>
          /\ llamadas = 0
          /\ "llamar" \notin Range(traza)
          /\ pc \in {"sin_datos", "fin"}
          /\ resultados = None

\* the PDF opened and had no pages: the text is "" (not None) and the run ended
\* without a remote call
C1_Witness ==
    /\ pc = "fin"
    /\ texto_documento = Str(<<>>)
    /\ llamadas = 0

\* C2: a response text that is not syntactically valid JSON (the escape token
\* ERROR_JSON included) makes analizar_estructura_documento return None.
C2_NoJsonDaNone ==
    ("parsear" \in Range(traza) /\ contenido_respuesta.forma # "json") =>
        datos_extraidos = None

\* C3: when the input path does not exist the entry point prints the
\* not-found diagnostic and does nothing else: no extraction, no remote call,
\* no file created or overwritten.
C3_ArchivoInexistenteNoHaceNada ==
    ~existe =>
        /\ traza \in {<<>>, <<"no_encontrado">>}
        /\ pc \in {"main", "fin"}
        /\ texto_documento = None
        /\ llamadas = 0
        /\ escrituras = 0
        /\ out_file \in {Ausente, Previo}
        /\ raw_file = Ausente
        /\ escape = "ninguna"

\* the run ended on the not-found diagnostic with an older output file in place
C3_Witness ==
    /\ ~existe
    /\ pc = "fin"
    /\ traza = <<"no_encontrado">>
    /\ out_file = Previo

\* --- the filter on its own (FilterSpec)
Categoria(r)   == Get(r, "categoria", EmptyStr).v
Informacion(r) == Get(r, "informacion", EmptyStr).v

Solo(r) ==
    Dict([rectangulos_con_informacion |-> List(<<r>>),
          informacion_externa |-> List(<<>>), datos_adicionales |-> Missing])

Retenidos(res) == res.value.v["rectangulos_con_informacion"].v

EjemploCorto  == Rect(Str(Rep("A", 2)), Str(Rep("b", 5)))    \* AB / 12345
EjemploBueno  == Rect(Str(Rep("A", 3)), Str(Rep("b", 6)))    \* ABC / 123456
EjemploIguales == Rect(Str(Rep("A", 1)), Str(Rep("a", 1)))   \* X / x

\* C4: an entry is retained only if its category is longer than 2, its
\* information longer than 5 and the two differ once lowercased; AB/12345 and
\* X/X are dropped, ABC/123456 is retained.
C4_FiltroRetieneSoloValidos ==
    (fpc \in {"una", "dos"} /\ Truthy(entrada)) =>
        /\ \A j \in 1..Len(Retenidos(una_vez)) :
              LET r == Retenidos(una_vez)[j]
              IN  /\ Len(Categoria(r)) > CatMin
                  /\ Len(Informacion(r)) > InfoMin
                  /\ lower(Categoria(r)) # lower(Informacion(r))
        /\ entrada = Solo(EjemploCorto) => Retenidos(una_vez) = <<>>
        /\ entrada = Solo(EjemploIguales) => Retenidos(una_vez) = <<>>
        /\ entrada = Solo(EjemploBueno) => Retenidos(una_vez) = <<EjemploBueno>>

\* the filter ran on the one entry AAA / bbbbbb and kept it
C4_Witness ==
    /\ fpc = "una"
    /\ entrada = Solo(EjemploBueno)
    /\ Retenidos(una_vez) = <<EjemploBueno>>

\* C5: filtering is idempotent: the filter applied to its own result returns
\* (it does not raise) and returns that same result; None stays None.
C5_FiltroIdempotente ==
    /\ fpc = "dos" => dos_veces = una_vez
    /\ fpc = "lanzo" => una_vez.raised
    /\ (fpc = "dos" /\ ~Truthy(entrada)) => dos_veces = Ok(None)

\* filtered twice, an input of two entries of which the first pass dropped one
C5_Witness ==
    /\ fpc = "dos"
    /\ Truthy(entrada)
    /\ entrada.v["rectangulos_con_informacion"].t = "list"
    /\ Len(entrada.v["rectangulos_con_informacion"].v) = 2
    /\ Len(Retenidos(una_vez)) = 1
    /\ dos_veces = una_vez

\* --- the pipeline (Spec)
TieneClave(d, k) == d.t = "dict" /\ k \in DOMAIN d.v /\ d.v[k] # Missing

\* the document the response text decodes to
Documento == contenido_respuesta.doc

\* C6: for a response that decodes to an object with the key
\* rectangulos_con_informacion, what is persisted is that object with the
\* list replaced by its entries that pass the filter, in order; the other
\* keys are unchanged, and when every entry passes it equals the response.
C6_PersistidoEsRespuestaFiltrada ==
    (out_file.estado = "escrito" /\ TieneClave(Documento, "rectangulos_con_informacion")) =>
        LET persistido == out_file.contenido.doc
            originales == Documento.v["rectangulos_con_informacion"].v
        IN  /\ out_file.contenido.forma = "json"
            /\ persistido.t = "dict"
            /\ DOMAIN persistido.v = DOMAIN Documento.v
            /\ persistido.v["informacion_externa"] = Documento.v["informacion_externa"]
            /\ persistido.v["datos_adicionales"] = Documento.v["datos_adicionales"]
            /\ persistido.v["rectangulos_con_informacion"] =
                   List(SelectSeq(originales, PasaFiltro))
            /\ (\A j \in 1..Len(originales) : PasaFiltro(originales[j])) =>
                   persistido = Documento

\* a file was written from a response of two entries, one kept and one dropped
C6_Witness ==
    /\ out_file.estado = "escrito"
    /\ TieneClave(Documento, "rectangulos_con_informacion")
    /\ Len(Documento.v["rectangulos_con_informacion"].v) = 2
    /\ Len(out_file.contenido.doc.v["rectangulos_con_informacion"].v) = 1
    /\ Documento.v["informacion_externa"] # Missing

\* C7: none of extraer_texto_pdf, analizar_estructura_documento,
\* filtrar_rectangulos_validos and guardar_datos_extraidos lets an exception
\* propagate to its caller, whatever the file, the remote outcome and the
\* response.
C7_NingunaExcepcionCruza ==
    escape \notin {"extraer_texto_pdf", "analizar_estructura_documento",
                   "filtrar_rectangulos_validos", "guardar_datos_extraidos"}

\* C8 as stated: whenever the response is parsed, respuesta_ia_raw.txt has
\* first been written with exactly the trimmed response text.
C8_RawSiempreEscrito ==
    "parsear" \in Range(traza) => raw_file = Archivo(contenido_respuesta)

\* C8 amended: before the response is parsed the write of the trimmed text to
\* respuesta_ia_raw.txt has always been attempted; when it succeeded the file
\* holds exactly that text, when it failed (caught and reported) the file was
\* left untouched or truncated and parsing goes on all the same.
C8_RawIntentadoAntesDeParsear ==
    (pc = "parsear" \/ "parsear" \in Range(traza)) =>
        \E i \in 1..Len(traza) :
            /\ traza[i] \in {"raw", "error_raw"}
            /\ \A j \in 1..Len(traza) : traza[j] = "parsear" => i < j
            /\ traza[i] = "raw" => raw_file = Archivo(contenido_respuesta)
            /\ traza[i] = "error_raw" => raw_file \in {Ausente, Parcial}

\* a JSON response was parsed after the side file was written with its
\* trimmed text
C8_Witness ==
    /\ "parsear" \in Range(traza)
    /\ "raw" \in Range(traza)
    /\ raw_file = Archivo(contenido_respuesta)
    /\ contenido_respuesta.forma = "json"

\* C9: the stages run in the order extract, call, (side file, parse), filter,
\* summary, render, persist, each at most once; datos_extraidos.json is opened
\* for writing at most once, only after the render, only when there was text
\* and a structured result; on every abort path it is never written; a failed
\* write leaves the in-memory result as the filter produced it.
Rango(e) ==
    CASE e \in {"encontrado", "no_encontrado"} -> 0
      [] e = "extraer" -> 1
      [] e = "llamar" -> 2
      [] e \in {"raw", "error_raw"} -> 3
      [] e = "parsear" -> 4
      [] e = "filtrar" -> 5
      [] e = "resumir" -> 6
      [] e = "mostrar" -> 7
      [] e \in {"guardar", "error_guardar"} -> 8
      [] e = "sin_datos" -> 9

C9_EtapasEnOrden ==
    /\ \A i, j \in 1..Len(traza) : i < j => Rango(traza[i]) < Rango(traza[j])
    /\ escrituras <= 1
    /\ (escrituras > 0 \/ out_file \notin {Ausente, Previo}
          \/ Range(traza) \cap {"guardar", "error_guardar"} # {}) =>
          /\ \E i \in 1..Len(traza) : traza[i] = "mostrar"
          /\ {"extraer", "llamar", "parsear", "filtrar", "mostrar"} \subseteq Range(traza)
          /\ Truthy(texto_documento)
          /\ Truthy(resultados) /\ resultados.t = "dict"
    /\ ("sin_datos" \in Range(traza) \/ pc = "sin_datos") =>
          /\ escrituras = 0
          /\ out_file \in {Ausente, Previo}
    /\ Range(traza) \cap {"guardar", "error_guardar"} # {} =>
          /\ resultados = datos_extraidos
          /\ resultados = filtrar_rectangulos_validos(Parsear(contenido_respuesta)).value
    /\ "guardar" \in Range(traza) => out_file = Archivo(json_dump(resultados))
    /\ pc = "crash" => (escrituras = 0 /\ out_file \in {Ausente, Previo})

\* the save failed after the file was opened: the result in memory is intact
C9_Witness ==
    /\ pc = "fin"
    /\ "error_guardar" \in Range(traza)
    /\ out_file = Parcial
    /\ Truthy(resultados)

\* C10: a PDF that opens and whose n >= 1 pages all yield text gives a
\* non-empty text holding exactly the markers 1..n in order, each followed by
\* its page's text; a page that cannot be read gives None.
RECURSIVE Inicio(_, _)
\* where page i's marker stands in the text
Inicio(paginas, i) ==
    IF i = 1 THEN 1 ELSE Inicio(paginas, i - 1) + 1 + Len(paginas[i - 1].texto)

C10_MarcasPorPagina ==
    ("extraer" \in Range(traza) /\ pdf.abre) =>
        LET ps == pdf.paginas
            n  == Len(ps)
        IN  /\ (\E i \in 1..n : ~ps[i].legible) => texto_documento = None
            /\ (n >= 1 /\ \A i \in 1..n : ps[i].legible) =>
                  /\ texto_documento.t = "str"
                  /\ Len(texto_documento.v) > 0
                  /\ Len(texto_documento.v) = Inicio(ps, n) + Len(ps[n].texto)
                  /\ \A i \in 1..n :
                        /\ texto_documento.v[Inicio(ps, i)] = Marca(i)
                        /\ \A k \in 1..Len(ps[i].texto) :
                              texto_documento.v[Inicio(ps, i) + k] = Car(ps[i].texto[k])
                  /\ Cardinality({p \in 1..Len(texto_documento.v) :
                                     texto_documento.v[p].k = "marca"}) = n

\* two readable pages with different texts were extracted
C10_Witness ==
    /\ "extraer" \in Range(traza)
    /\ pdf.abre
    /\ Len(pdf.paginas) = 2
    /\ pdf.paginas[1].legible /\ pdf.paginas[2].legible
    /\ pdf.paginas[1].texto # pdf.paginas[2].texto
    /\ Len(texto_documento.v) = 4

\* --- the filter on its own (FilterSpec), trimmed values
\* the three conditions on the whitespace-trimmed category and information
ValidaRecortada(r) ==
    /\ Len(strip(Categoria(r))) > CatMin
    /\ Len(strip(Informacion(r))) > InfoMin
    /\ lower(strip(Categoria(r))) # lower(strip(Informacion(r)))

\* long enough only thanks to a leading blank
EjemploRelleno == Rect(Str(<<Blanco>> \o Rep("a", 2)), Str(Rep("b", 6)))
\* the two values differ only by surrounding blanks and case
EjemploIgualesRelleno ==
    Rect(Str(Rep("a", 6)), Str((<<Blanco>> \o Rep("A", 6)) \o <<Blanco>>))
\* valid once trimmed, with blanks around both values
EjemploBuenoRelleno ==
    Rect(Str((<<Blanco>> \o Rep("a", 3)) \o <<Blanco>>), Str(Rep("b", 6) \o <<Blanco>>))

\* C11: the filter tests the whitespace-trimmed category and information: the
\* entries kept are exactly those whose trimmed values meet the three
\* conditions, in order and with their original untrimmed values; an entry
\* long enough only by its surrounding blanks, or whose values differ only by
\* surrounding blanks and case, is dropped.
C11_FiltroSobreValoresRecortados ==
    (fpc \in {"una", "dos"} /\ Truthy(entrada)) =>
        /\ Retenidos(una_vez) =
              SelectSeq(Elementos(Get(entrada, "rectangulos_con_informacion", List(<<>>))),
                        ValidaRecortada)
        /\ entrada = Solo(EjemploRelleno) => Retenidos(una_vez) = <<>>
        /\ entrada = Solo(EjemploIgualesRelleno) => Retenidos(una_vez) = <<>>
        /\ entrada = Solo(EjemploBuenoRelleno) =>
              Retenidos(una_vez) = <<EjemploBuenoRelleno>>

\* the filter kept an entry with blanks around its values, blanks included
C11_Witness ==
    /\ fpc = "una"
    /\ entrada = Solo(EjemploBuenoRelleno)
    /\ Retenidos(una_vez) = <<EjemploBuenoRelleno>>
    /\ strip(Categoria(Retenidos(una_vez)[1])) # Categoria(Retenidos(una_vez)[1])

\* the filter dropped an entry whose category is long enough only untrimmed
C11_WitnessDescartado ==
    /\ fpc = "una"
    /\ entrada = Solo(EjemploRelleno)
    /\ Len(Categoria(EjemploRelleno)) > CatMin
    /\ Retenidos(una_vez) = <<>>

====
